---- MODULE Spec2Model ----
(***************************************************************************)
(* A model of src/main.cpp: the muxing driver that encodes a synthetic     *)
(* audio stream and a synthetic video stream and interleaves them into one *)
(* AVI file.                                                               *)
(*                                                                         *)
(* The program is single threaded.  The model follows main() position by   *)
(* position (pc), with one action per call that main makes; one iteration  *)
(* of the scheduler loop, including the whole write_audio_frame or         *)
(* write_video_frame call it makes, is one action.                         *)
(*                                                                         *)
(* The external engines (encoders, resampler, scaler, muxer, allocator)    *)
(* are modelled by their contracts: every call that can fail may fail, an  *)
(* encoder keeps the frames it was given in a FIFO of at most MaxBuffered  *)
(* entries and emits at most one packet per call, and the resampler        *)
(* reports delays that add up to at most MaxSwrDelay samples.              *)
(*                                                                         *)
(* The doubles of the program (audio_pts, video_pts, audio_time,           *)
(* video_time) are modelled as exact rationals [n, d]; INFINITY is         *)
(* [n |-> 1, d |-> 0].  Within the bounds no running time is within a      *)
(* rounding error of another one or of STREAM_DURATION unless it is equal  *)
(* to it, so the comparisons agree with the floating point ones.           *)
(***************************************************************************)
EXTENDS Integers, Sequences, FiniteSets, TLC

VARIABLES
    pc,                 \* position in main()
    exit_status,        \* -1 while running, else the process exit status
    held,               \* engine resources acquired and not yet released
    header_written,     \* avformat_write_header succeeded
    trailer_attempted,  \* av_write_trailer was called
    sample_fmt,         \* c->sample_fmt of the audio encoder
    swr_ctx,            \* swr_ctx != nullptr
    sws_ctx,            \* write_video_frame's static sws_ctx != nullptr
    src_nb_samples,     \* static int src_nb_samples
    max_dst_nb_samples, \* static int max_dst_nb_samples
    samples_count,      \* int samples_count
    audio_pts,          \* double audio_pts
    video_pts,          \* double video_pts
    frame_count,        \* static int frame_count
    audio_is_eof,       \* static int audio_is_eof
    video_is_eof,       \* static int video_is_eof
    flush,              \* main's local flush
    aenc,               \* pts of the frames the audio encoder holds, oldest first
    venc,               \* pts of the frames the video encoder holds, oldest first
    gen_samples,        \* samples produced so far by get_audio_frame
    gen_images,         \* images produced so far by fill_rgb_image
    dst_allocs,         \* allocations of dst_samples_data[0] so far
    dst_frees,          \* av_free calls on dst_samples_data[0] so far
    requested_max,      \* largest sample count requested of the dst buffer so far
    swr_delay_total,    \* sum of the delays swr_get_delay has reported so far
    step,               \* the pipeline step made by the latest loop iteration
    failed_call,        \* the engine call whose failure ended the process, "" if none
    stderr_out,         \* what the process has printed on stderr, "" if nothing
    submitted,          \* frames each encoder has accepted so far
    produced,           \* packets each encoder has emitted so far
    written,            \* per stream index, the packets write_frame has handed to
                        \* av_interleaved_write_frame so far
    conv                \* the timestamp converter under test: its time bases, and
                        \* its latest two inputs and outputs

vars == <<pc, exit_status, held, header_written, trailer_attempted, sample_fmt,
          swr_ctx, sws_ctx, src_nb_samples, max_dst_nb_samples, samples_count,
          audio_pts, video_pts, frame_count, audio_is_eof, video_is_eof, flush,
          aenc, venc, gen_samples, gen_images, dst_allocs, dst_frees,
          requested_max, swr_delay_total, step, failed_call, stderr_out,
          submitted, produced, written, conv>>

(***************************************************************************)
(* Bounds of the model.                                                    *)
(***************************************************************************)
\* frames an encoder can hold back before it has to emit a packet
MaxBuffered == 1
\* the delays, in samples, that swr_get_delay reports in a run add up to at
\* most this
MaxSwrDelay == 1
\* the converter under test is given timestamps in -MaxTimestamp..MaxTimestamp
MaxTimestamp == 4
\* and time bases whose numerator and denominator are in 1..MaxBase
MaxBase == 3

(***************************************************************************)
(* Program constants.                                                      *)
(***************************************************************************)
STREAM_DURATION == 5
sample_rate == 48000
\* c->frame_size of the MP3 encoder that main asserts is the audio codec
frame_size == 1152
\* video_st->time_base: num = 100, den = 100 * STREAM_FRAME_RATE
video_time_base == [num |-> 100, den |-> 2997]
\* audio_st->time_base as the AVI muxer sets it for 1152-sample frames at 48 kHz
audio_time_base == [num |-> 3, den |-> 125]
\* c->time_base of the audio encoder: 1 / sample_rate
audio_codec_time_base == [num |-> 1, den |-> sample_rate]
\* the streams in the order in which main adds them
video_st == [index |-> 0, time_base |-> video_time_base]
audio_st == [index |-> 1, time_base |-> audio_time_base]
SampleFormats == {"S16", "S32P"}

(***************************************************************************)
(* Exact rational arithmetic for the program's doubles.  The operations    *)
(* are functions so that their arguments are evaluated once.               *)
(***************************************************************************)
gcd[a \in Nat, b \in Nat] == IF b = 0 THEN a ELSE gcd[b, a % b]

rat[n \in Nat, d \in Nat] ==
    LET g == gcd[n, d] IN
    IF g = 0 THEN [n |-> n, d |-> d] ELSE [n |-> n \div g, d |-> d \div g]

Rationals == [n : Nat, d : Nat]
INFINITY == [n |-> 1, d |-> 0]

ratmul[a \in Rationals, b \in Rationals] ==
    LET x == rat[a.n, b.d]
        y == rat[b.n, a.d]
    IN  rat[x.n * y.n, x.d * y.d]
ratle[a \in Rationals, b \in Rationals] == a.n * b.d <= b.n * a.d
ratlt[a \in Rationals, b \in Rationals] == a.n * b.d < b.n * a.d

Rat(n, d) == rat[n, d]
RatInt(i) == [n |-> i, d |-> 1]
RatMul(a, b) == ratmul[a, b]
RatDiv(a, b) == ratmul[a, [n |-> b.d, d |-> b.n]]
RatLT(a, b) == ratlt[a, b]
RatLE(a, b) == ratle[a, b]
RatGE(a, b) == ratle[b, a]
av_q2d(q) == rat[q.num, q.den]

(***************************************************************************)
(* libavutil rescaling, for the non-negative values the program passes.    *)
(* a * b / c is computed with b / c in lowest terms, which leaves the      *)
(* rounded result unchanged and keeps the products small.                  *)
(***************************************************************************)
\* av_rescale_rnd(a, b, c, AV_ROUND_UP)
rescale_up[a \in Nat, b \in Nat, c \in Nat] ==
    LET r == rat[b, c] IN (a * r.n + (r.d - 1)) \div r.d
\* av_rescale_rnd(a, b, c, AV_ROUND_NEAR_INF)
rescale_near[a \in Nat, b \in Nat, c \in Nat] ==
    LET r == rat[b, c] IN (a * r.n + (r.d \div 2)) \div r.d
av_rescale_rnd_up(a, b, c) == rescale_up[a, b, c]
av_rescale_near(a, b, c) == rescale_near[a, b, c]
\* av_rescale_q(a, bq, cq)
av_rescale_q(a, bq, cq) == rescale_near[a, bq.num * cq.den, cq.num * bq.den]

\* a bug: the product a * b is kept in an integer too narrow for it
av_rescale_q_rnd_Narrow(a, bq, cq) ==
    LET b == bq.num * cq.den
        c == cq.num * bq.den
        m == IF a < 0 THEN -a ELSE a
        r == (((m * b) % 8) + (c \div 2)) \div c
    IN  IF a < 0 THEN -r ELSE r
\* av_rescale_q_rnd(a, bq, cq, AV_ROUND_NEAR_INF | AV_ROUND_PASS_MINMAX): to the
\* nearest integer, halfway cases away from zero; a negative a is rescaled
\* as -a and negated.  INT64_MIN and INT64_MAX, which AV_ROUND_PASS_MINMAX
\* passes through, are outside the values of the model.
av_rescale_q_rnd(a, bq, cq) ==
    IF a < 0 THEN -rescale_near[-a, bq.num * cq.den, cq.num * bq.den]
    ELSE rescale_near[a, bq.num * cq.den, cq.num * bq.den]

(***************************************************************************)
(* The step record: what the latest loop iteration did.                    *)
(***************************************************************************)
NoPacket == [pts |-> -1, stream_index |-> -1]
NoStep == [who |-> "none", flush |-> 0, pulled |-> FALSE, request |-> 0,
           encoded |-> FALSE, input |-> "none", got_packet |-> 0, pkt |-> NoPacket]

NoConv == [from |-> [num |-> 1, den |-> 1], to |-> [num |-> 1, den |-> 1],
           prev_in |-> 0, prev_out |-> 0, in |-> 0, out |-> 0]

\* the program's state when main is entered
ProgramStart ==
    /\ exit_status = -1
    /\ failed_call = ""
    /\ stderr_out = ""
    /\ submitted = [audio |-> 0, video |-> 0]
    /\ produced = [audio |-> 0, video |-> 0]
    /\ written = [i \in 0..1 |-> 0]
    /\ held = {}
    /\ header_written = FALSE
    /\ trailer_attempted = FALSE
    /\ sample_fmt \in SampleFormats
    /\ swr_ctx = FALSE
    /\ sws_ctx = FALSE
    /\ src_nb_samples = 0
    /\ max_dst_nb_samples = 0
    /\ samples_count = 0
    /\ audio_pts = RatInt(0)
    /\ video_pts = 0
    /\ frame_count = 0
    /\ audio_is_eof = 0
    /\ video_is_eof = 0
    /\ flush = 0
    /\ aenc = <<>>
    /\ venc = <<>>
    /\ gen_samples = 0
    /\ gen_images = 0
    /\ dst_allocs = 0
    /\ dst_frees = 0
    /\ requested_max = 0
    /\ swr_delay_total = 0
    /\ step = NoStep

Init ==
    /\ pc = "alloc_output_context"
    /\ conv = NoConv
    /\ ProgramStart

(***************************************************************************)
(* The engine calls whose failure ends the process, in the order in which  *)
(* each function makes them, and what the program prints on stderr before  *)
(* it ends.  Where the fprintf is absent or commented out nothing is       *)
(* printed.                                                                *)
(***************************************************************************)
OpenVideoCalls == <<"avcodec_open2(video)", "av_frame_alloc(video)",
                    "avpicture_alloc(dst_picture)", "avpicture_alloc(src_picture)">>
OpenAudioCalls == <<"av_frame_alloc(audio)", "avcodec_open2(audio)",
                    "av_samples_alloc_array_and_samples(src)", "swr_alloc", "swr_init",
                    "av_samples_alloc_array_and_samples(dst)">>
AudioStepCalls == <<"av_samples_alloc", "swr_convert", "avcodec_encode_audio2",
                    "write_frame(audio)">>
VideoStepCalls == <<"sws_getContext", "avcodec_encode_video2", "write_frame(video)">>

\* avcodec_get_name for the two codecs main asserts the format uses
avcodec_get_name(codec_id) ==
    CASE codec_id = "AV_CODEC_ID_MPEG4" -> "mpeg4"
      [] codec_id = "AV_CODEC_ID_MP3" -> "mp3"

\* codec_id is the codec add_stream was called for; only its message uses it
FailureMessage(call, codec_id) ==
    CASE call = "avcodec_find_encoder" ->
             "Could not find encoder for '" \o avcodec_get_name(codec_id) \o "'\n"
      [] call = "avformat_new_stream" -> "Could not allocate stream\n"
      [] call = "av_frame_alloc(video)" -> "Could not allocate video frame\n"
      [] call = "av_frame_alloc(audio)" -> "Could not allocate audio frame\n"
      [] call = "av_samples_alloc_array_and_samples(src)" ->
             "Could not allocate source samples\n"
      [] call = "swr_alloc" -> "Could not allocate resampler context\n"
      [] call = "swr_init" -> "Failed to initialize the resampling context\n"
      [] call = "av_samples_alloc_array_and_samples(dst)" ->
             "Could not allocate destination samples\n"
      [] call = "swr_convert" -> "Error while converting\n"
      [] call = "sws_getContext" -> "Could not initialize the conversion context\n"
      [] OTHER -> ""

(***************************************************************************)
(* Process exit: exit(code) and main's return code.  Nothing is released.  *)
(***************************************************************************)
ExitIn(code, call, codec_id) ==
    /\ pc' = "exited"
    /\ exit_status' = code
    /\ failed_call' = call
    /\ stderr_out' = FailureMessage(call, codec_id)

\* an exit outside add_stream
Exit(code, call) == ExitIn(code, call, "AV_CODEC_ID_NONE")

Outcome == <<exit_status, failed_call, stderr_out>>
Ledger == <<submitted, produced, written>>

AudioState == <<sample_fmt, swr_ctx, src_nb_samples, max_dst_nb_samples, samples_count,
                audio_pts, audio_is_eof, aenc, gen_samples, dst_allocs, dst_frees,
                requested_max, swr_delay_total>>
VideoState == <<sws_ctx, video_pts, frame_count, video_is_eof, venc, gen_images>>

(***************************************************************************)
(* main, lines 432-437: the output context, with the "avi" fallback.       *)
(***************************************************************************)
AllocOutputContext ==
    /\ pc = "alloc_output_context"
    /\ \E deduced \in BOOLEAN, fallback \in BOOLEAN :
          LET oc == deduced \/ fallback IN
          /\ ~deduced \/ ~fallback     \* the fallback runs only when deduction failed
          /\ IF oc
             THEN /\ held' = held \cup {"oc"}
                  /\ pc' = "add_video_stream"
                  /\ UNCHANGED Outcome
             ELSE /\ Exit(1, "avformat_alloc_output_context2")
                  /\ UNCHANGED held
    /\ step' = NoStep
    /\ UNCHANGED <<header_written, trailer_attempted, flush, AudioState, VideoState, Ledger, conv>>

(***************************************************************************)
(* add_stream: exit(1) when the encoder is not found or the stream cannot  *)
(* be allocated.  The stream and its codec context belong to oc.           *)
(***************************************************************************)
add_stream(codec_id, next) ==
    /\ \E found \in BOOLEAN, allocated \in BOOLEAN :
          /\ allocated => found       \* no stream is allocated without an encoder
          /\ IF found /\ allocated
             THEN /\ pc' = next
                  /\ UNCHANGED Outcome
             ELSE ExitIn(1, IF found THEN "avformat_new_stream"
                            ELSE "avcodec_find_encoder", codec_id)
    /\ step' = NoStep
    /\ UNCHANGED <<held, header_written, trailer_attempted, flush, AudioState, VideoState, Ledger, conv>>

AddVideoStream ==
    /\ pc = "add_video_stream"
    /\ add_stream("AV_CODEC_ID_MPEG4", "add_audio_stream")

AddAudioStream ==
    /\ pc = "add_audio_stream"
    /\ add_stream("AV_CODEC_ID_MP3", "open_video")

(***************************************************************************)
(* open_video: four acquisitions in order, each of which may fail with     *)
(* exit(1).  failing = 5 means none failed.                                *)
(***************************************************************************)
VideoAcquired(failing) ==
    {r \in {"video_codec", "frame", "dst_picture", "src_picture"} :
        \/ r = "video_codec" /\ failing > 1
        \/ r = "frame" /\ failing > 2
        \/ r = "dst_picture" /\ failing > 3
        \/ r = "src_picture" /\ failing > 4}

OpenVideo ==
    /\ pc = "open_video"
    /\ \E failing \in 1..5 :
          /\ held' = held \cup VideoAcquired(failing)
          /\ IF failing = 5
             THEN /\ pc' = "open_audio"
                  /\ UNCHANGED Outcome
             ELSE Exit(1, OpenVideoCalls[failing])
    /\ step' = NoStep
    /\ UNCHANGED <<header_written, trailer_attempted, flush, AudioState, VideoState, Ledger, conv>>

(***************************************************************************)
(* open_audio.  The calls that can fail, in order: 1 av_frame_alloc,       *)
(* 2 avcodec_open2, 3 the source samples, and when the encoder's sample    *)
(* format is not S16: 4 swr_alloc, 5 swr_init, 6 the destination samples.  *)
(* failing = 7 means none failed.  With S16 the destination buffer is the  *)
(* source buffer.                                                          *)
(***************************************************************************)
NeedsResampler == sample_fmt # "S16"

AudioAcquired(failing) ==
    {r \in {"audio_frame", "audio_codec", "src_array", "src_data", "swr_ctx",
            "dst_array", "dst_data"} :
        \/ r = "audio_frame" /\ failing > 1
        \/ r = "audio_codec" /\ failing > 2
        \/ r \in {"src_array", "src_data"} /\ failing > 3
        \/ r = "swr_ctx" /\ NeedsResampler /\ failing > 4
        \/ r \in {"dst_array", "dst_data"} /\ NeedsResampler /\ failing > 6}

OpenAudio ==
    /\ pc = "open_audio"
    /\ \E failing \in 1..7 :
          /\ failing \in 4..6 => NeedsResampler
          /\ held' = held \cup AudioAcquired(failing)
          /\ src_nb_samples' = IF failing > 2 THEN frame_size ELSE src_nb_samples
          /\ max_dst_nb_samples' = IF failing > 3 THEN frame_size ELSE max_dst_nb_samples
          /\ swr_ctx' = (NeedsResampler /\ failing > 4)
          /\ requested_max' = IF NeedsResampler /\ failing > 5 THEN frame_size
                              ELSE requested_max
          /\ dst_allocs' = IF NeedsResampler /\ failing > 6 THEN dst_allocs + 1
                           ELSE dst_allocs
          /\ IF failing = 7
             THEN /\ pc' = "avio_open"
                  /\ UNCHANGED Outcome
             ELSE Exit(1, OpenAudioCalls[failing])
    /\ step' = NoStep
    /\ UNCHANGED <<header_written, trailer_attempted, flush, sample_fmt, samples_count,
                   audio_pts, audio_is_eof, aenc, gen_samples, dst_frees, swr_delay_total,
                   VideoState, Ledger, conv>>

(***************************************************************************)
(* main, lines 460-472: open the file and write the header; either         *)
(* failure is "return 1".                                                  *)
(***************************************************************************)
AvioOpen ==
    /\ pc = "avio_open"
    /\ \E ok \in BOOLEAN :
          IF ok
          THEN /\ held' = held \cup {"pb"}
               /\ pc' = "write_header"
               /\ UNCHANGED Outcome
          ELSE /\ Exit(1, "avio_open")
               /\ UNCHANGED held
    /\ step' = NoStep
    /\ UNCHANGED <<header_written, trailer_attempted, flush, AudioState, VideoState, Ledger, conv>>

WriteHeader ==
    /\ pc = "write_header"
    /\ \E ok \in BOOLEAN :
          IF ok
          THEN /\ header_written' = TRUE
               /\ pc' = "loop"
               /\ UNCHANGED Outcome
          ELSE /\ Exit(1, "avformat_write_header")
               /\ UNCHANGED header_written
    /\ step' = NoStep
    /\ flush' = 0
    /\ UNCHANGED <<held, trailer_attempted, AudioState, VideoState, Ledger, conv>>

(***************************************************************************)
(* The encoders (avcodec_encode_audio2, avcodec_encode_video2), by their   *)
(* contract: a frame given to the encoder joins its FIFO; a call emits at  *)
(* most one packet, for the oldest frame held; the encoder holds back at   *)
(* most MaxBuffered frames; given a null frame it emits a packet while it  *)
(* holds a frame and reports no packet once it is empty.                   *)
(***************************************************************************)
EncoderGot(queue, input) ==
    IF input = "null"
    THEN IF queue # <<>> THEN {1} ELSE {0}
    ELSE IF Len(queue) + 1 > MaxBuffered THEN {1} ELSE {0, 1}

EncoderNext(queue, input, pts, got) ==
    LET q == IF input = "frame" THEN Append(queue, pts) ELSE queue
    IN  IF got = 1 THEN Tail(q) ELSE q

\* the pts of the packet the call emits: that of the oldest frame held
EncoderPacketPts(queue, input, pts) ==
    Head(IF input = "frame" THEN Append(queue, pts) ELSE queue)

(***************************************************************************)
(* write_frame, lines 54-62: the packet handed to                          *)
(* av_interleaved_write_frame, with its pts in the stream's time base and  *)
(* the stream's index.                                                     *)
(***************************************************************************)
write_frame(time_base, st, pkt_pts) ==
    [pts |-> av_rescale_q_rnd(pkt_pts, time_base, st.time_base),
     stream_index |-> st.index]

\* the writer's ledger after the packet was handed to it
WrittenAfter(pkt) == [written EXCEPT ![pkt.stream_index] = @ + 1]

(***************************************************************************)
(* swr_get_delay: any delay that keeps the run's total within MaxSwrDelay. *)
(***************************************************************************)
SwrDelays == 0..(MaxSwrDelay - swr_delay_total)

\* a bug: the stream time base is applied the wrong way round
AudioPts_Inverted(count) ==
    RatDiv(RatDiv(RatMul(RatInt(count), RatInt(audio_time_base.num)),
                  RatInt(audio_time_base.den)),
           RatInt(sample_rate))
(***************************************************************************)
(* write_audio_frame, line 270: the running time after a written packet.   *)
(***************************************************************************)
AudioPts(count) ==
    RatDiv(RatDiv(RatMul(RatInt(count), RatInt(audio_time_base.den)),
                  RatInt(audio_time_base.num)),
           RatInt(sample_rate))

(***************************************************************************)
(* Pieces of the two pipeline steps.                                       *)
(***************************************************************************)
\* a bug: the generator is pulled in flush steps too
PullsInput_Always(fl) == TRUE
\* lines 224 and 355, "if (!flush)": the step pulls new input from its generator
PullsInput(fl) == fl = 0

\* lines 254 and 384, "flush ? nullptr : frame": what the encoder is given
EncoderInput(fl) == IF fl = 1 THEN "null" ELSE "frame"

\* a bug: the buffer is reallocated when the request equals the capacity
NeedsGrow_OrEqual(dst_nb_samples, capacity) == dst_nb_samples >= capacity
\* line 230: the destination buffer has to grow
NeedsGrow(dst_nb_samples, capacity) == dst_nb_samples > capacity

\* a bug: the end of the stream is never recorded
EofAfter_NeverSet(eof, fl, got) == eof
\* a bug: any step without a packet ends the stream
EofAfter_AnyEmpty(eof, fl, got) == IF got = 0 THEN 1 ELSE eof
\* lines 259-262 and 392-395: no packet came out of a flush step
EofAfter(eof, fl, got) == IF got = 0 /\ fl = 1 THEN 1 ELSE eof

\* a bug: a packet drained from the encoder by a flush step is dropped
WritesPacket_NormalOnly(fl, got) == got = 1 /\ fl = 0
\* lines 259-265 and 390-391: the packet that came out is given to write_frame
WritesPacket(fl, got) == got = 1

\* a bug: the running time is read from the null frame of a flush step
VideoPts_NullFrame(fl, frame_pts) == IF fl = 1 THEN 0 ELSE frame_pts
\* line 403: video_pts = frame->pts
VideoPts(fl, frame_pts) == frame_pts

(***************************************************************************)
(* write_audio_frame(oc, st, fl).  The calls that can end the process with *)
(* exit(1), in order: 1 av_samples_alloc (when the buffer grows),          *)
(* 2 swr_convert, 3 avcodec_encode_audio2, 4 write_frame (when a packet    *)
(* came out).  failing = 5 means none failed.  A statement of the function *)
(* takes effect when the calls before it did not fail.                     *)
(***************************************************************************)
write_audio_frame(fl) ==
    \E delay \in SwrDelays, got \in 0..1, failing \in 1..5 :
        LET convert == PullsInput(fl) /\ swr_ctx
            dst_nb_samples ==
                IF swr_ctx
                THEN av_rescale_rnd_up(delay + src_nb_samples, sample_rate, sample_rate)
                ELSE src_nb_samples
            grow == convert /\ NeedsGrow(dst_nb_samples, max_dst_nb_samples)
            frame_pts == av_rescale_q(samples_count, [num |-> 1, den |-> sample_rate],
                                      audio_codec_time_base)
            encoded == failing > 3
            writes == encoded /\ WritesPacket(fl, got)
            enc_pts == IF encoded /\ got = 1
                       THEN EncoderPacketPts(aenc, EncoderInput(fl), frame_pts) ELSE -1
            pkt == IF writes THEN write_frame(audio_codec_time_base, audio_st, enc_pts)
                   ELSE NoPacket
        IN
        /\ IF failing = 5
           THEN UNCHANGED <<pc, Outcome>>
           ELSE Exit(1, AudioStepCalls[failing])
        /\ ~convert => delay = 0
        /\ failing = 1 => grow
        /\ failing = 2 => convert
        /\ got \in (IF encoded THEN EncoderGot(aenc, EncoderInput(fl)) ELSE {0})
        /\ failing = 4 => got = 1
        /\ gen_samples' = IF PullsInput(fl) THEN gen_samples + src_nb_samples
                          ELSE gen_samples
        /\ swr_delay_total' = swr_delay_total + delay
        /\ requested_max' = IF convert /\ dst_nb_samples > requested_max
                            THEN dst_nb_samples ELSE requested_max
        /\ dst_frees' = IF grow THEN dst_frees + 1 ELSE dst_frees
        /\ dst_allocs' = IF grow /\ failing > 1 THEN dst_allocs + 1 ELSE dst_allocs
        /\ held' = IF grow /\ failing = 1 THEN held \ {"dst_data"} ELSE held
        /\ max_dst_nb_samples' = IF grow /\ failing > 1 THEN dst_nb_samples
                                 ELSE max_dst_nb_samples
        /\ samples_count' = IF PullsInput(fl) /\ failing > 2
                            THEN samples_count + dst_nb_samples
                            ELSE samples_count
        /\ aenc' = IF encoded THEN EncoderNext(aenc, EncoderInput(fl), frame_pts, got)
                   ELSE aenc
        /\ audio_is_eof' = IF encoded THEN EofAfter(audio_is_eof, fl, got)
                           ELSE audio_is_eof
        /\ audio_pts' = IF failing = 5 /\ got = 1 THEN AudioPts(samples_count')
                        ELSE audio_pts
        /\ submitted' = IF encoded /\ EncoderInput(fl) = "frame"
                        THEN [submitted EXCEPT !.audio = @ + 1] ELSE submitted
        /\ produced' = IF encoded /\ got = 1
                       THEN [produced EXCEPT !.audio = @ + 1] ELSE produced
        /\ written' = IF writes THEN WrittenAfter(pkt) ELSE written
        /\ step' = [who |-> "audio", flush |-> fl, pulled |-> PullsInput(fl),
                    request |-> IF convert THEN dst_nb_samples ELSE 0,
                    encoded |-> encoded,
                    input |-> IF encoded THEN EncoderInput(fl) ELSE "none",
                    got_packet |-> got, pkt |-> pkt]
        /\ UNCHANGED <<sample_fmt, swr_ctx, src_nb_samples, VideoState, conv>>

(***************************************************************************)
(* write_video_frame(oc, st, fl).  The calls that can end the process with *)
(* exit(1), in order: 1 sws_getContext (first NORMAL step only),           *)
(* 2 avcodec_encode_video2, 3 write_frame (when a packet came out).        *)
(* failing = 4 means none failed.                                          *)
(***************************************************************************)
write_video_frame(fl) ==
    \E got \in 0..1, failing \in 1..4 :
        LET init_sws == PullsInput(fl) /\ ~sws_ctx
            frame_pts == frame_count
            encoded == failing > 2
            writes == encoded /\ WritesPacket(fl, got)
            enc_pts == IF encoded /\ got = 1
                       THEN EncoderPacketPts(venc, EncoderInput(fl), frame_pts) ELSE -1
            pkt == IF writes THEN write_frame(video_time_base, video_st, enc_pts)
                   ELSE NoPacket
        IN
        /\ IF failing = 4
           THEN UNCHANGED <<pc, Outcome>>
           ELSE Exit(1, VideoStepCalls[failing])
        /\ failing = 1 => init_sws
        /\ got \in (IF encoded THEN EncoderGot(venc, EncoderInput(fl)) ELSE {0})
        /\ failing = 3 => got = 1
        /\ sws_ctx' = (sws_ctx \/ (init_sws /\ failing > 1))
        /\ held' = IF init_sws /\ failing > 1 THEN held \cup {"sws_ctx"} ELSE held
        /\ gen_images' = IF PullsInput(fl) /\ failing > 1 THEN gen_images + 1
                         ELSE gen_images
        /\ venc' = IF encoded THEN EncoderNext(venc, EncoderInput(fl), frame_pts, got)
                   ELSE venc
        /\ video_is_eof' = IF encoded THEN EofAfter(video_is_eof, fl, got)
                           ELSE video_is_eof
        /\ video_pts' = IF failing = 4 THEN VideoPts(fl, frame_pts) ELSE video_pts
        /\ frame_count' = IF failing = 4 THEN frame_count + 1 ELSE frame_count
        /\ submitted' = IF encoded /\ EncoderInput(fl) = "frame"
                        THEN [submitted EXCEPT !.video = @ + 1] ELSE submitted
        /\ produced' = IF encoded /\ got = 1
                       THEN [produced EXCEPT !.video = @ + 1] ELSE produced
        /\ written' = IF writes THEN WrittenAfter(pkt) ELSE written
        /\ step' = [who |-> "video", flush |-> fl,
                    pulled |-> (PullsInput(fl) /\ failing > 1), request |-> 0,
                    encoded |-> encoded,
                    input |-> IF encoded THEN EncoderInput(fl) ELSE "none",
                    got_packet |-> got, pkt |-> pkt]
        /\ UNCHANGED <<AudioState, conv>>

(***************************************************************************)
(* The scheduler loop of main, lines 474-493.                              *)
(***************************************************************************)
LoopCond == video_is_eof = 0 \/ audio_is_eof = 0

audio_time == IF audio_is_eof = 0
              THEN RatMul(audio_pts, av_q2d(audio_time_base)) ELSE INFINITY
video_time == IF video_is_eof = 0
              THEN RatMul(RatInt(video_pts), av_q2d(video_time_base)) ELSE INFINITY

\* a bug: flushing starts when either stream has reached the duration
FlushNow_Either ==
    IF /\ flush = 0
       /\ \/ RatGE(audio_time, RatInt(STREAM_DURATION))
          \/ RatGE(video_time, RatInt(STREAM_DURATION))
    THEN 1 ELSE flush
\* lines 480-482: the value of flush after the test
FlushNow ==
    IF /\ flush = 0
       /\ RatGE(audio_time, RatInt(STREAM_DURATION))
       /\ RatGE(video_time, RatInt(STREAM_DURATION))
    THEN 1 ELSE flush

\* a bug: the tie goes to video
Select_VideoOnTie ==
    IF video_is_eof = 0 /\ RatLE(video_time, audio_time) THEN "video"
    ELSE IF audio_is_eof = 0 /\ RatLT(audio_time, video_time) THEN "audio"
    ELSE "none"
\* a bug: the scheduler compares the running times of streams that are done
Select_IgnoreEof ==
    IF RatLE(RatMul(audio_pts, av_q2d(audio_time_base)),
             RatMul(RatInt(video_pts), av_q2d(video_time_base)))
    THEN "audio" ELSE "video"
\* a bug: both comparisons are strict, so that a tie steps neither stream
Select_StrictBoth ==
    IF audio_is_eof = 0 /\ RatLT(audio_time, video_time) THEN "audio"
    ELSE IF video_is_eof = 0 /\ RatLT(video_time, audio_time) THEN "video"
    ELSE "none"
\* a bug: the stream that is ahead is stepped
Select_LargestFirst ==
    IF audio_is_eof = 0 /\ (video_is_eof = 1 \/ RatLE(video_time, audio_time))
    THEN "audio"
    ELSE IF video_is_eof = 0 /\ (audio_is_eof = 1 \/ RatLT(audio_time, video_time))
    THEN "video"
    ELSE "none"
\* lines 484-492: the pipeline the iteration steps
Select ==
    IF audio_is_eof = 0 /\ RatLE(audio_time, video_time) THEN "audio"
    ELSE IF video_is_eof = 0 /\ RatLT(video_time, audio_time) THEN "video"
    ELSE "none"

LoopAudio ==
    /\ pc = "loop"
    /\ LoopCond
    /\ Select = "audio"
    /\ flush' = FlushNow
    /\ write_audio_frame(flush')
    /\ UNCHANGED <<header_written, trailer_attempted>>

LoopVideo ==
    /\ pc = "loop"
    /\ LoopCond
    /\ Select = "video"
    /\ flush' = FlushNow
    /\ write_video_frame(flush')
    /\ UNCHANGED <<header_written, trailer_attempted>>

LoopExit ==
    /\ pc = "loop"
    /\ ~LoopCond
    /\ pc' = "write_trailer"
    /\ step' = NoStep
    /\ UNCHANGED <<Outcome, held, header_written, trailer_attempted, flush,
                   AudioState, VideoState, Ledger, conv>>

(***************************************************************************)
(* main, lines 498-512: trailer and teardown.                              *)
(***************************************************************************)
WriteTrailer ==
    /\ pc = "write_trailer"
    /\ trailer_attempted' = TRUE
    /\ pc' = "close_video"
    /\ step' = NoStep
    /\ UNCHANGED <<Outcome, held, header_written, flush, AudioState, VideoState, Ledger, conv>>

\* close_video: the codec, both pictures and the frame
CloseVideo ==
    /\ pc = "close_video"
    /\ held' = held \ {"video_codec", "src_picture", "dst_picture", "frame"}
    /\ pc' = "close_audio"
    /\ step' = NoStep
    /\ UNCHANGED <<Outcome, header_written, trailer_attempted, flush,
                   AudioState, VideoState, Ledger, conv>>

\* line 276: dst_samples_data != src_samples_data
DstIsSeparate == swr_ctx

\* close_audio: the codec, the destination samples when they are not the
\* source samples, the source samples and the frame
CloseAudio ==
    /\ pc = "close_audio"
    /\ held' = held \ ({"audio_codec", "src_data", "src_array", "audio_frame"}
                       \cup IF DstIsSeparate THEN {"dst_data", "dst_array"} ELSE {})
    /\ dst_frees' = IF DstIsSeparate THEN dst_frees + 1 ELSE dst_frees
    /\ pc' = "avio_close"
    /\ step' = NoStep
    /\ UNCHANGED <<Outcome, header_written, trailer_attempted, flush,
                   sample_fmt, swr_ctx, src_nb_samples, max_dst_nb_samples,
                   samples_count, audio_pts, audio_is_eof, aenc, gen_samples,
                   dst_allocs, requested_max, swr_delay_total, VideoState, Ledger,
                   conv>>

AvioClose ==
    /\ pc = "avio_close"
    /\ held' = held \ {"pb"}
    /\ pc' = "free_context"
    /\ step' = NoStep
    /\ UNCHANGED <<Outcome, header_written, trailer_attempted, flush,
                   AudioState, VideoState, Ledger, conv>>

\* avformat_free_context, then return 0
FreeContext ==
    /\ pc = "free_context"
    /\ held' = held \ {"oc"}
    /\ Exit(0, "")
    /\ step' = NoStep
    /\ UNCHANGED <<header_written, trailer_attempted, flush, AudioState, VideoState, Ledger, conv>>

Next ==
    \/ AllocOutputContext
    \/ AddVideoStream
    \/ AddAudioStream
    \/ OpenVideo
    \/ OpenAudio
    \/ AvioOpen
    \/ WriteHeader
    \/ LoopAudio
    \/ LoopVideo
    \/ LoopExit
    \/ WriteTrailer
    \/ CloseVideo
    \/ CloseAudio
    \/ AvioClose
    \/ FreeContext

Spec == Init /\ [][Next]_vars

\* the steps in which no engine call fails
NextOk == exit_status' \in {-1, 0} /\ Next

\* the runs in which no engine call fails; the process keeps running until it
\* exits
NoFailSpec == Init /\ [][NextOk]_vars /\ WF_vars(NextOk)

(***************************************************************************)
(* Running times of the two streams, whether or not they are done.         *)
(***************************************************************************)
ratadd[a \in Rationals, b \in Rationals] == rat[a.n * b.d + b.n * a.d, a.d * b.d]
RatAdd(a, b) == ratadd[a, b]
AudioRunningTime == RatMul(audio_pts, av_q2d(audio_time_base))
VideoRunningTime == RatMul(RatInt(video_pts), av_q2d(video_time_base))
Duration == RatInt(STREAM_DURATION)
AudioBlockDuration == Rat(frame_size, sample_rate)
VideoFrameDuration == av_q2d(video_time_base)
BothDone == audio_is_eof = 1 /\ video_is_eof = 1
BothActive == audio_is_eof = 0 /\ video_is_eof = 0
\* the transition is a scheduler iteration
Iteration == pc = "loop" /\ step'.who # "none" /\ vars' # vars

(***************************************************************************)
(* C1.  Termination of the scheduler loop: every run in which no engine   *)
(* call fails reaches the state in which audio_is_eof and video_is_eof are *)
(* set and the loop has been left.                                         *)
(***************************************************************************)
C1_LoopTerminates == <>(pc = "write_trailer" /\ BothDone)
C1_Witness == pc = "write_trailer" /\ BothDone /\ gen_samples > 0 /\ gen_images > 0

(***************************************************************************)
(* C2.  Tie-break: an iteration that starts with both streams active and   *)
(* audio_time = video_time steps the audio pipeline.                       *)
(***************************************************************************)
C2_AudioOnTie ==
    [][(Iteration /\ BothActive /\ audio_time = video_time) => step'.who = "audio"]_vars
\* after the first iteration: both times were 0 and audio was stepped
C2_Witness ==
    /\ step.who = "audio"
    /\ gen_samples = src_nb_samples
    /\ gen_images = 0
    /\ frame_count = 0

(***************************************************************************)
(* C3.  Final running times: when both streams are done, the audio running *)
(* time is >= 5.0 and < 5.0 + one audio block, and the video running time  *)
(* is >= 5.0 and < 5.0 + one frame.                                        *)
(***************************************************************************)
C3_FinalTimes ==
    BothDone =>
        /\ RatGE(AudioRunningTime, Duration)
        /\ RatLT(AudioRunningTime, RatAdd(Duration, AudioBlockDuration))
        /\ RatGE(VideoRunningTime, Duration)
        /\ RatLT(VideoRunningTime, RatAdd(Duration, VideoFrameDuration))

(***************************************************************************)
(* C4.  A stream that is done stays done and its pipeline step is not      *)
(* invoked again.                                                          *)
(***************************************************************************)
C4_DoneOnce ==
    [][/\ audio_is_eof = 1 => audio_is_eof' = 1 /\ (Iteration => step'.who # "audio")
       /\ video_is_eof = 1 => video_is_eof' = 1 /\ (Iteration => step'.who # "video")]_vars
\* the other stream was stepped after one stream was done
C4_Witness ==
    \/ audio_is_eof = 1 /\ step.who = "video" /\ step.encoded
    \/ video_is_eof = 1 /\ step.who = "audio" /\ step.encoded

(***************************************************************************)
(* C5.  Flushing is monotonic: once flush is 1 it stays 1, and every       *)
(* pipeline step from then on is a flush step, which gives the encoder a   *)
(* null input and pulls nothing from a generator.                          *)
(***************************************************************************)
C5_FlushMonotonic ==
    [][flush = 1 =>
          /\ flush' = 1
          /\ Iteration =>
                /\ step'.flush = 1
                /\ step'.input # "frame"
                /\ ~step'.pulled
                /\ gen_samples' = gen_samples
                /\ gen_images' = gen_images]_vars
\* a flush step made after flushing had begun in an earlier iteration
C5_Witness ==
    /\ flush = 1
    /\ step.flush = 1
    /\ step.input = "null"
    /\ audio_is_eof = 1 \/ video_is_eof = 1
    /\ ~BothDone

(***************************************************************************)
(* C6.  Flush trigger: an iteration runs with flush set exactly when flush *)
(* was set before or every active stream's time has reached the duration;  *)
(* and no flush step is made while the audio or the video running time is  *)
(* below the duration.                                                     *)
(***************************************************************************)
C6_FlushTrigger ==
    [][Iteration =>
          /\ (step'.flush = 1) =
                (\/ flush = 1
                 \/ RatGE(audio_time, Duration) /\ RatGE(video_time, Duration))
          /\ flush' = step'.flush
          /\ step'.flush = 1 =>
                /\ RatGE(AudioRunningTime, Duration)
                /\ RatGE(VideoRunningTime, Duration)]_vars
\* a flush step that drained a packet while both streams were active
C6_Witness ==
    /\ step.flush = 1
    /\ step.encoded
    /\ step.got_packet = 1
    /\ BothActive

(***************************************************************************)
(* C7.  audio_pts and video_pts never decrease, and once flush is set      *)
(* neither running time is below the duration.                             *)
(***************************************************************************)
C7_TimesMonotonic ==
    [][/\ RatLE(audio_pts, audio_pts')
       /\ video_pts <= video_pts'
       /\ flush' = 1 =>
             /\ RatGE(AudioRunningTime', Duration)
             /\ RatGE(VideoRunningTime', Duration)]_vars
\* a video step made while flushing
C7_Witness ==
    /\ flush = 1
    /\ step.who = "video"
    /\ step.flush = 1
    /\ pc = "loop"
    /\ video_pts = frame_count - 1

(***************************************************************************)
(* C8.  Growth of the resampled-audio buffer: a request of at most the     *)
(* capacity frees and allocates nothing and leaves the capacity; a larger  *)
(* request reallocates to exactly the request; the capacity never shrinks  *)
(* and, after the steps, is the largest request so far.                    *)
(***************************************************************************)
C8_BufferGrowth ==
    [][/\ max_dst_nb_samples <= max_dst_nb_samples'
       /\ (Iteration /\ step'.request > 0 /\ pc' = "loop") =>
             /\ IF step'.request <= max_dst_nb_samples
                THEN /\ max_dst_nb_samples' = max_dst_nb_samples
                     /\ dst_allocs' = dst_allocs
                     /\ dst_frees' = dst_frees
                ELSE /\ max_dst_nb_samples' = step'.request
                     /\ dst_allocs' = dst_allocs + 1
                     /\ dst_frees' = dst_frees + 1
             /\ max_dst_nb_samples' = requested_max']_vars
\* the buffer has grown, and a later step asked for no more than the capacity
C8_Witness ==
    /\ pc = "loop"
    /\ dst_allocs = 2
    /\ step.request > 0
    /\ step.request < max_dst_nb_samples

(***************************************************************************)
(* C9.  Resource safety: when the process ends, on any path, every engine  *)
(* resource it acquired has been released.                                 *)
(***************************************************************************)
C9_AllReleased == pc = "exited" => held = {}

(***************************************************************************)
(* C10.  Trailer on failure: when the process ends, av_write_trailer has   *)
(* been attempted if the header was written, and not otherwise.            *)
(***************************************************************************)
C10_TrailerIffHeader == pc = "exited" => (trailer_attempted = header_written)

(***************************************************************************)
(* C11.  No encoded unit is lost or duplicated: in every pipeline step     *)
(* whose encoder emits a packet, that packet, which is the one for the     *)
(* oldest frame the encoder held, is handed to av_interleaved_write_frame  *)
(* once, with the stream's index and its pts in the stream's time base,    *)
(* and no other step hands anything over; a stream that is done has an     *)
(* empty encoder, and as many packets written as its encoder emitted and   *)
(* as frames were given to it.                                             *)
(***************************************************************************)
StreamOf(who) == IF who = "audio" THEN audio_st ELSE video_st
CodecTimeBase(who) == IF who = "audio" THEN audio_codec_time_base ELSE video_time_base
\* the pts of the oldest frame the encoder holds once it has taken the
\* step's input
OldestPts(who) ==
    IF who = "audio"
    THEN IF aenc # <<>> THEN Head(aenc) ELSE samples_count
    ELSE IF venc # <<>> THEN Head(venc) ELSE frame_count
C11_NoUnitLost ==
    [][/\ Iteration =>
             LET who == step'.who
                 idx == StreamOf(who).index
                 held_before == IF who = "audio" THEN aenc ELSE venc
                 held_after == IF who = "audio" THEN aenc' ELSE venc'
                 taken == IF step'.input = "frame" THEN 1 ELSE 0
             IN  IF step'.got_packet = 1
                 THEN /\ step'.pkt.stream_index = idx
                      /\ step'.pkt.pts = av_rescale_q_rnd(OldestPts(who), CodecTimeBase(who),
                                                          StreamOf(who).time_base)
                      /\ Len(held_after) = Len(held_before) + taken - 1
                      /\ \A i \in DOMAIN held_after : held_after[i] > OldestPts(who)
                      /\ written'[idx] = written[idx] + 1
                      /\ written'[1 - idx] = written[1 - idx]
                 ELSE written' = written
       /\ written'[audio_st.index] = produced'.audio
       /\ written'[video_st.index] = produced'.video
       /\ audio_is_eof' = 1 => aenc' = <<>> /\ produced'.audio = submitted'.audio
       /\ video_is_eof' = 1 => venc' = <<>> /\ produced'.video = submitted'.video]_vars
\* both streams are done, each after a flush step drained a packet
C11_Witness ==
    /\ BothDone
    /\ written[audio_st.index] = submitted.audio
    /\ written[video_st.index] = submitted.video
    /\ submitted.audio > 1
    /\ submitted.video > 1
    /\ step.flush = 1

(***************************************************************************)
(* The timestamp converter of write_frame on its own: any two time bases   *)
(* and any non-decreasing sequence of timestamps, each rescaled the way    *)
(* line 57 rescales pkt->pts.                                              *)
(***************************************************************************)
TimeBases == [num : 1..MaxBase, den : 1..MaxBase]
Timestamps == (-MaxTimestamp)..MaxTimestamp

RescaleInit ==
    /\ pc = "rescale"
    /\ ProgramStart
    /\ \E from \in TimeBases, to \in TimeBases, a \in Timestamps :
          LET r == av_rescale_q_rnd(a, from, to) IN
          conv = [from |-> from, to |-> to, prev_in |-> a, prev_out |-> r,
                  in |-> a, out |-> r]

\* the next packet's pts, not below the previous one, is rescaled
Rescale ==
    /\ pc = "rescale"
    /\ \E a \in Timestamps :
          /\ a >= conv.in
          /\ conv' = [conv EXCEPT !.prev_in = conv.in, !.prev_out = conv.out,
                                  !.in = a,
                                  !.out = av_rescale_q_rnd(a, conv.from, conv.to)]
    /\ UNCHANGED <<pc, held, header_written, trailer_attempted, flush, step, Outcome,
                   AudioState, VideoState, Ledger>>

RescaleNext == Rescale

RescaleSpec == RescaleInit /\ [][RescaleNext]_vars

(***************************************************************************)
(* C12.  Rescaling is monotone: of two successive timestamps given to the  *)
(* converter, the second not below the first, the rescaled second is not   *)
(* below the rescaled first, whatever the two time bases.                  *)
(***************************************************************************)
C12_RescaleMonotone ==
    (pc = "rescale" /\ conv.prev_in <= conv.in) => conv.prev_out <= conv.out
\* -1/2 and 1/2, both halfway cases, were rounded away from zero to -1 and 1
C12_Witness ==
    /\ pc = "rescale"
    /\ conv.from = [num |-> 1, den |-> 2]
    /\ conv.to = [num |-> 1, den |-> 1]
    /\ conv.prev_in = -1
    /\ conv.prev_out = -1
    /\ conv.in = 1
    /\ conv.out = 1

(***************************************************************************)
(* C13.  Smallest-time-first selection: an iteration that starts with both *)
(* streams active never steps the stream whose running time is strictly    *)
(* greater; video is stepped only when it is active and either its time is *)
(* below the audio time or audio is done, and audio only when it is active *)
(* and either its time is at most the video time or video is done.         *)
(***************************************************************************)
C13_SmallestFirst ==
    [][Iteration =>
          /\ (BothActive /\ step'.who = "audio") =>
                ~RatLT(VideoRunningTime, AudioRunningTime)
          /\ (BothActive /\ step'.who = "video") =>
                ~RatLT(AudioRunningTime, VideoRunningTime)
          /\ step'.who = "video" =>
                /\ video_is_eof = 0
                /\ RatLT(VideoRunningTime, AudioRunningTime) \/ audio_is_eof = 1
          /\ step'.who = "audio" =>
                /\ audio_is_eof = 0
                /\ RatLE(AudioRunningTime, VideoRunningTime) \/ video_is_eof = 1]_vars
\* video was stepped while both streams were active and is now ahead of audio
C13_Witness ==
    /\ pc = "loop"
    /\ BothActive
    /\ step.who = "video"
    /\ frame_count > 1
    /\ RatLT(AudioRunningTime, VideoRunningTime)

(***************************************************************************)
(* C14.  Transition to done: a pipeline step is made on an active stream   *)
(* and sets the stream's eof flag exactly when it is a flush step whose    *)
(* encoder call emits no packet; a NORMAL step whose encoder emits no      *)
(* packet leaves the flag clear; a flush step whose encoder emits a packet *)
(* hands the packet to the writer and leaves the flag clear; the other     *)
(* stream's flag is not touched.                                           *)
(***************************************************************************)
C14_DoneTransition ==
    [][Iteration =>
          LET audio == step'.who = "audio"
              eof_before == IF audio THEN audio_is_eof ELSE video_is_eof
              eof_after == IF audio THEN audio_is_eof' ELSE video_is_eof'
              idx == StreamOf(step'.who).index
          IN  /\ eof_before = 0
              /\ (eof_after = 1) =
                    (step'.flush = 1 /\ step'.encoded /\ step'.got_packet = 0)
              /\ (step'.flush = 0 /\ step'.got_packet = 0) => eof_after = 0
              /\ (step'.flush = 1 /\ step'.got_packet = 1) =>
                    /\ eof_after = 0
                    /\ step'.pkt.stream_index = idx
                    /\ written'[idx] = written[idx] + 1
              /\ IF audio THEN video_is_eof' = video_is_eof
                 ELSE audio_is_eof' = audio_is_eof]_vars
\* audio has just become done in a flush step that found its encoder empty,
\* every frame given to the encoder having come out; video is still active
C14_Witness ==
    /\ step.who = "audio"
    /\ step.flush = 1
    /\ step.got_packet = 0
    /\ audio_is_eof = 1
    /\ video_is_eof = 0
    /\ produced.audio = submitted.audio
    /\ submitted.audio > 0
    /\ pc = "loop"

(***************************************************************************)
(* C15.  The video frame index tracks submissions: while the program runs, *)
(* frame_count is the number of images that have been given to the video   *)
(* encoder.                                                                *)
(***************************************************************************)
C15_FrameCountIsSubmissions == pc # "exited" => frame_count = submitted.video

(***************************************************************************)
(* C16.  As claimed: after an audio step whose encoder emitted a packet,   *)
(* the audio running time is that packet's own pts in seconds.             *)
(***************************************************************************)
\* the pts of the packet given to the container, in seconds
PacketTime(pkt, st) == RatMul(RatInt(pkt.pts), av_q2d(st.time_base))
\* an audio step that emitted a packet, wrote it and returned
AudioStepWithPacket ==
    Iteration /\ step'.who = "audio" /\ step'.got_packet = 1 /\ pc' = "loop"
C16_TimeIsPacketPts ==
    [][AudioStepWithPacket => AudioRunningTime' = PacketTime(step'.pkt, audio_st)]_vars

(***************************************************************************)
(* C16, amended.  After an audio step whose encoder emitted a packet that  *)
(* was written, the audio running time is recomputed from the sample       *)
(* counter: it is samples_count / sample_rate seconds, the end of the      *)
(* samples submitted so far, which is later than the packet's own pts.     *)
(***************************************************************************)
C16_TimeIsSamplesSubmitted ==
    [][AudioStepWithPacket =>
          /\ AudioRunningTime' = Rat(samples_count', sample_rate)
          /\ RatLT(PacketTime(step'.pkt, audio_st), AudioRunningTime')]_vars
\* a packet came out while the encoder kept a later frame: the running time
\* is two blocks or more past the packet's pts
C16_Witness ==
    /\ pc = "loop"
    /\ step.who = "audio"
    /\ step.got_packet = 1
    /\ step.pkt.pts > 0
    /\ aenc # <<>>
    /\ AudioRunningTime = Rat(samples_count, sample_rate)

(***************************************************************************)
(* C17.  A NORMAL audio step whose encoder takes the frame and emits no    *)
(* packet advances the audio running time.                                 *)
(***************************************************************************)
C17_TimeAdvancesWhileBuffering ==
    [][(/\ Iteration
        /\ step'.who = "audio"
        /\ step'.flush = 0
        /\ step'.encoded
        /\ step'.got_packet = 0
        /\ pc' = "loop") => RatLT(AudioRunningTime, AudioRunningTime')]_vars

(***************************************************************************)
(* C18.  Ownership of the sample buffers, with the destination buffer      *)
(* either the source buffer itself or an allocation of its own: nothing is *)
(* freed more often than it was allocated, the pipeline steps work on      *)
(* buffers that have not been freed, and when the process ends every       *)
(* sample buffer that was allocated has been freed.                        *)
(***************************************************************************)
SampleBuffers == {"src_array", "src_data", "dst_array", "dst_data"}
\* the buffers write_audio_frame reads and writes
BuffersInUse ==
    IF DstIsSeparate THEN SampleBuffers ELSE {"src_array", "src_data"}
C18_SampleBuffersFreedOnce ==
    /\ dst_frees <= dst_allocs
    /\ (pc = "loop" /\ audio_is_eof = 0) => BuffersInUse \subseteq held
    /\ pc = "exited" => (held \cap SampleBuffers = {} /\ dst_frees = dst_allocs)

(***************************************************************************)
(* C19.  Failure outcomes are distinguishable: a run ended by the failure  *)
(* to grow the resample buffer ends with a non-zero status and with an     *)
(* exit status and stderr output that are not those of a run ended by an   *)
(* encoder error; a run ended by an encoder error ends with a non-zero     *)
(* status; and a step whose encoder call succeeds without a packet does    *)
(* not end the run.                                                        *)
(***************************************************************************)
\* what can be observed of a run that the failure of the call ended
FailureOutcome(call) == [status |-> 1, stderr |-> FailureMessage(call, "AV_CODEC_ID_NONE")]
Observed == [status |-> exit_status, stderr |-> stderr_out]
C19_FailuresDistinguishable ==
    /\ (pc = "exited" /\ failed_call = "av_samples_alloc") =>
          /\ exit_status # 0
          /\ Observed # FailureOutcome("avcodec_encode_audio2")
    /\ (pc = "exited" /\ failed_call = "avcodec_encode_audio2") => exit_status # 0
    /\ (step.encoded /\ step.got_packet = 0) => pc # "exited"

(***************************************************************************)
(* C20.  Scheduler progress: whenever the loop is about to run an          *)
(* iteration, that is, a stream is active, one of the two branches fires,  *)
(* and the stream it steps is an active one.                               *)
(***************************************************************************)
C20_OneBranchFires ==
    (pc = "loop" /\ LoopCond) =>
        /\ Select \in {"audio", "video"}
        /\ Select = "audio" => audio_is_eof = 0
        /\ Select = "video" => video_is_eof = 0
\* audio is done and the loop goes on, with the video branch about to fire
C20_Witness ==
    /\ pc = "loop"
    /\ LoopCond
    /\ audio_is_eof = 1
    /\ Select = "video"
    /\ step.who = "audio"

====
